---- MODULE Spec2Model ----
(***************************************************************************)
(* Model of scripts/cache_bust.py: the cache-busting link rewriter.        *)
(*                                                                         *)
(* Text is a sequence of tokens.  A token is one character of the HTML     *)
(* text or an indivisible group of characters the program only ever looks  *)
(* at as a whole:                                                          *)
(*   "href=" "src="      the attribute name with its equals sign           *)
(*   "DQ" "SQ"           the double and the single quote character         *)
(*   ".css" ".js"        an extension                                      *)
(*   "?" "/"             the query mark and the path separator             *)
(*   "http://" "https://" a URL scheme                                     *)
(*   "a"                 an ordinary name character                        *)
(*   "x256"              a run of more than NAME_MAX name characters       *)
(*   "v="                the parameter name written by the program         *)
(*   "0" .. "9"          decimal digits                                    *)
(* A path on disk is a sequence of components from the filesystem root,    *)
(* each component a sequence of tokens.                                    *)
(***************************************************************************)
EXTENDS Integers, Sequences, FiniteSets, TLC

VARIABLES
    publicExists,  \* PUBLIC.exists() (line 69)
    version_arg,   \* args.version: [given, val]; given = FALSE is Python's None
    html,          \* the HTML files under public/: file name -> text on disk
    fs,            \* the asset files that exist on disk (resolved paths)
    now,           \* the clock, in ticks
    pc,            \* position of __main__: start, loop, done, exit, crashed
    err,           \* the uncaught exception that ended the run ("" if none)
    exitCode,      \* process exit status (-1 while running)
    html_files,    \* list(PUBLIC.rglob("*.html")) (line 85)
    idx,           \* position of the for loop (line 86) in html_files
    out,           \* lines printed in this run
    reads,         \* read_text calls of this run (line 57), in order
    writes,        \* write_text calls of this run (line 64), in order
    statCalls,     \* number of mtime_version calls in this run
    raced,         \* some stat() failed after exists() succeeded (any run)
    run,           \* number of the current invocation of the tool
    lastText,      \* text read by the latest process_file
    lastNew,       \* new_text computed by the latest process_file
    subs           \* replace_match calls of the latest process_file

vars == <<publicExists, version_arg, html, fs, now, pc, err, exitCode,
          html_files, idx, out, reads, writes, statCalls, raced, run,
          lastText, lastNew, subs>>

----------------------------------------------------------------------------
(* Bounds of the model *)

MaxBody == 3

MaxLinks == 2

MaxAssets == 2

MaxRuns == 2

TicksPerSec == 2

----------------------------------------------------------------------------
(* Paths (lines 17-18, 39, 42) *)

ROOT == << <<"proj">> >>

PUBLIC == ROOT \o << <<"public">> >>

SUB == PUBLIC \o << <<"sub">> >>

HtmlDir(f) == IF f = "index" THEN PUBLIC ELSE SUB

\* The components of a relative or absolute path string: split at "/",
\* empty components dropped; a scheme token ends a component "http:".
RECURSIVE Parts(_, _)
Parts(s, cur) ==
    IF s = <<>> THEN (IF cur = <<>> THEN <<>> ELSE <<cur>>)
    ELSE IF Head(s) = "/"
         THEN (IF cur = <<>> THEN <<>> ELSE <<cur>>) \o Parts(Tail(s), <<>>)
    ELSE IF Head(s) \in {"http://", "https://"}
         THEN <<cur \o <<IF Head(s) = "http://" THEN "http:" ELSE "https:">>>>
              \o Parts(Tail(s), <<>>)
    ELSE Parts(Tail(s), cur \o <<Head(s)>>)

\* (dir / rel).resolve(): an absolute rel replaces dir.
Join(dir, rel) ==
    IF rel # <<>> /\ Head(rel) = "/" THEN Parts(rel, <<>>)
    ELSE dir \o Parts(rel, <<>>)

\* os.stat fails with ENAMETOOLONG on a component longer than NAME_MAX.
NameTooLong(p) == \E i \in 1..Len(p) : \E k \in 1..Len(p[i]) : p[i][k] = "x256"

\* Path.exists(): "raise" models pathlib re-raising an OSError that is not
\* ENOENT/ENOTDIR/EBADF/ELOOP (CPython up to 3.13); a later pathlib answers
\* False instead, which is strict = FALSE.
exists(p, strict) ==
    IF NameTooLong(p) THEN (IF strict THEN "raise" ELSE "no")
    ELSE IF p \in fs THEN "yes" ELSE "no"

\* st_mtime of an existing file, in ticks: fixed by the file's place, and
\* different for files of the same name in different directories.
st_mtime(p) == 2 * TicksPerSec * Len(p) + Len(p[Len(p)]) + 1

\* int(x): truncation of a time to whole seconds.
int(t) == t \div TicksPerSec

Digit == <<"0", "1", "2", "3", "4", "5", "6", "7", "8", "9">>

\* str(n) for n >= 0: decimal digits.
RECURSIVE str(_)
str(n) == IF n < 10 THEN <<Digit[n + 1]>> ELSE str(n \div 10) \o <<Digit[(n % 10) + 1]>>

----------------------------------------------------------------------------
(* CSS_JS_RE (lines 20-23) *)

\* (?:href|src)= under re.IGNORECASE
IsAttr(c) == c \in {"href=", "src=", "HREF=", "SRC="}

\* (?:"|\')
IsQuote(c) == c \in {"DQ", "SQ"}

\* \.(?:css|js) under re.IGNORECASE
IsExt(c) == c \in {".css", ".js", ".CSS", ".JS"}

Max(S) == CHOOSE x \in S : \A y \in S : y <= x

\* Last position of the longest run of [^"\'] starting at i (i - 1 if empty).
RECURSIVE RunEnd(_, _)
RunEnd(text, i) ==
    IF i <= Len(text) /\ ~IsQuote(text[i]) THEN RunEnd(text, i + 1) ELSE i - 1

NoMatch == [found |-> FALSE, start |-> 0, end |-> 0,
            prefix |-> <<>>, path |-> <<>>, suffix |-> <<>>, g0 |-> <<>>]

\* The match of CSS_JS_RE that starts at position i, if there is one.  The
\* greedy path backtracks to the last extension that is followed by the
\* closing quote or by a "?" (the optional query group takes the rest).
MatchAt(text, i) ==
    IF i + 1 <= Len(text) /\ IsAttr(text[i]) /\ IsQuote(text[i + 1])
    THEN LET j == RunEnd(text, i + 2)
             ends == {e \in (i + 3)..j :
                        IsExt(text[e]) /\ (e = j \/ text[e + 1] = "?")}
         IN  IF j + 1 <= Len(text) /\ ends # {}
             THEN [found |-> TRUE, start |-> i, end |-> j + 1,
                   prefix |-> SubSeq(text, i, i + 1),
                   path |-> SubSeq(text, i + 2, Max(ends)),
                   suffix |-> <<text[j + 1]>>,
                   g0 |-> SubSeq(text, i, j + 1)]
             ELSE NoMatch
    ELSE NoMatch

\* The non-overlapping matches of CSS_JS_RE in text from position i on,
\* leftmost first, as re.sub finds them.
RECURSIVE finditer(_, _)
finditer(text, i) ==
    IF i > Len(text) THEN <<>>
    ELSE LET m == MatchAt(text, i)
         IN  IF m.found THEN <<m>> \o finditer(text, m.end + 1)
             ELSE finditer(text, i + 1)

----------------------------------------------------------------------------
(* mtime_version (lines 26-30) and replace_match (lines 33-53) *)

\* Python truthiness of version: None and "" are both false (line 49).
Truthy(version) == version.given /\ version.val # <<>>

\* mtime_version without its except clause: the failed stat() leaves the call.
mtime_version_noexcept(path, fails) ==
    IF fails THEN [ok |-> FALSE, val |-> <<>>]
    ELSE [ok |-> TRUE, val |-> str(int(st_mtime(path)))]

\* [ok, val]: when stat() raises (fails), the except clause answers the
\* current time instead.  ok = FALSE would be an exception leaving the call.
mtime_version(path, fails) ==
    IF fails THEN [ok |-> TRUE, val |-> str(int(now))]
    ELSE [ok |-> TRUE, val |-> str(int(st_mtime(path)))]

\* The remote test with the scheme prefixes forgotten.
IsRemote_slashesOnly(rel) == Len(rel) >= 2 /\ rel[1] = "/" /\ rel[2] = "/"

\* rel.startswith("http://") or rel.startswith("https://") or rel.startswith("//")
IsRemote(rel) ==
    \/ Len(rel) >= 1 /\ rel[1] \in {"http://", "https://"}
    \/ Len(rel) >= 2 /\ rel[1] = "/" /\ rel[2] = "/"

\* The path emitted as captured, query and all.
clean_rel_keep(rel) == rel

\* rel.split("?", 1)[0]
RECURSIVE clean_rel(_)
clean_rel(rel) ==
    IF rel = <<>> \/ Head(rel) = "?" THEN <<>>
    ELSE <<Head(rel)>> \o clean_rel(Tail(rel))

\* The two locations tried in the opposite order.
Resolve_publicFirst(html_dir, rel, strict) ==
    LET first == Join(PUBLIC, rel)
        candidate == Join(html_dir, rel)
        e1 == exists(first, strict)
        e2 == IF e1 = "no" THEN exists(candidate, strict) ELSE "unasked"
    IN  [raise |-> e1 = "raise" \/ e2 = "raise",
         found |-> e1 = "yes" \/ e2 = "yes",
         target |-> IF e1 # "yes" /\ e2 = "yes" THEN candidate ELSE first]

\* Where line 39-44 leave target, given the answers of the two exists().
Resolve(html_dir, rel, strict) ==
    LET first == Join(html_dir, rel)
        candidate == Join(PUBLIC, rel)
        e1 == exists(first, strict)
        e2 == IF e1 = "no" THEN exists(candidate, strict) ELSE "unasked"
    IN  [raise |-> e1 = "raise" \/ e2 = "raise",
         found |-> e1 = "yes" \/ e2 = "yes",
         target |-> IF e1 # "yes" /\ e2 = "yes" THEN candidate ELSE first]

Call(m, html_dir, outcome, target, stat, failed, v, o) ==
    [rel |-> m.path, g0 |-> m.g0, prefix |-> m.prefix, suffix |-> m.suffix,
     dir |-> html_dir, outcome |-> outcome, target |-> target,
     stat |-> stat, statFailed |-> failed, v |-> v, out |-> o]

\* One call of replace_match, as a record of what it saw and returned.
\* outcome: remote (line 37), missing (line 47), rewritten (line 53), or an
\* exception leaving the call: raise_exists, raise_stat.
replace_match(m, html_dir, version, fails, strict) ==
    LET rel == m.path
        r == Resolve(html_dir, rel, strict)
    IN  IF IsRemote(rel)
        THEN Call(m, html_dir, "remote", <<>>, FALSE, FALSE, <<>>, m.g0)
        ELSE IF r.raise
        THEN Call(m, html_dir, "raise_exists", <<>>, FALSE, FALSE, <<>>, <<>>)
        ELSE IF ~r.found
        THEN Call(m, html_dir, "missing", <<>>, FALSE, FALSE, <<>>, m.g0)
        ELSE LET stat == ~Truthy(version)
                 failed == stat /\ fails
                 mv == IF stat THEN mtime_version(r.target, fails)
                       ELSE [ok |-> TRUE, val |-> version.val]
                 new == m.prefix \o clean_rel(rel) \o <<"?", "v=">>
                        \o mv.val \o m.suffix
             IN  IF ~mv.ok
                 THEN Call(m, html_dir, "raise_stat", r.target, stat, failed, <<>>, <<>>)
                 ELSE Call(m, html_dir, "rewritten", r.target, stat, failed, mv.val, new)

Raises(c) == c.outcome \in {"raise_exists", "raise_stat"}

----------------------------------------------------------------------------
(* process_file (lines 56-65) *)

\* The replace_match calls CSS_JS_RE.sub makes on text, one per match, up to
\* and including the first one that raises.  bad: the calls (by number) in
\* which a stat(), if made, fails.
RECURSIVE CallsFrom(_, _, _, _, _, _)
CallsFrom(ms, k, html_dir, version, bad, strict) ==
    IF k > Len(ms) THEN <<>>
    ELSE LET c == replace_match(ms[k], html_dir, version, k \in bad, strict)
         IN  IF Raises(c) THEN <<c>>
             ELSE <<c>> \o CallsFrom(ms, k + 1, html_dir, version, bad, strict)

\* The text CSS_JS_RE.sub returns: the text between the matches kept, each
\* match replaced by what replace_match returned for it.
RECURSIVE Splice(_, _, _, _, _)
Splice(text, ms, calls, k, from) ==
    IF k > Len(ms) THEN SubSeq(text, from, Len(text))
    ELSE SubSeq(text, from, ms[k].start - 1) \o calls[k].out
         \o Splice(text, ms, calls, k + 1, ms[k].end + 1)

\* CSS_JS_RE.sub(repl, text) (line 62): the calls made, the exception that
\* left it ("" if none) and the new text.
sub(text, html_dir, version, bad, strict) ==
    LET ms == finditer(text, 1)
        calls == CallsFrom(ms, 1, html_dir, version, bad, strict)
        raised == calls # <<>> /\ Raises(calls[Len(calls)])
    IN  [calls |-> calls,
         err |-> IF ~raised THEN ""
                 ELSE IF calls[Len(calls)].outcome = "raise_exists"
                      THEN "exists" ELSE "stat",
         new_text |-> IF raised THEN text ELSE Splice(text, ms, calls, 1, 1)]

NumStat(calls) == Cardinality({k \in 1..Len(calls) : calls[k].stat})

Updated(f) == [msg |-> "Updated:", file |-> f]

\* An uncaught exception ends the run with a traceback and status 1.
Crash(e) ==
    /\ pc' = "crashed"
    /\ err' = e
    /\ exitCode' = 1

StatCalls(calls) == {k \in 1..Len(calls) : calls[k].stat}

\* The replace_match calls that call mtime_version while substituting in text.
Statted(text, html_dir, version, strict) ==
    StatCalls(sub(text, html_dir, version, {}, strict).calls)

AnyStatFailed(calls) == \E k \in 1..Len(calls) : calls[k].statFailed

\* The read failure caught and the loop continued with the next file.
ReadFails_caught ==
    /\ pc = "loop"
    /\ idx <= Len(html_files)
    /\ reads' = Append(reads, html_files[idx])
    /\ err' = "read"
    /\ idx' = idx + 1
    /\ lastText' = <<>>
    /\ lastNew' = <<>>
    /\ subs' = <<>>
    /\ UNCHANGED <<publicExists, version_arg, html, fs, now, html_files, pc,
                   exitCode, out, writes, statCalls, raced, run>>

\* process_file(f) for the next file of the loop (lines 86-87), when
\* path.read_text raises (line 57).
ReadFails ==
    /\ pc = "loop"
    /\ idx <= Len(html_files)
    /\ reads' = Append(reads, html_files[idx])
    /\ Crash("read")
    /\ lastText' = <<>>
    /\ lastNew' = <<>>
    /\ subs' = <<>>
    /\ UNCHANGED <<publicExists, version_arg, html, fs, now, html_files, idx,
                   out, writes, statCalls, raced, run>>

\* process_file without the comparison of line 63: always write and report.
Processed_always(f, text, s) ==
    /\ reads' = Append(reads, f)
    /\ lastText' = text
    /\ lastNew' = s.new_text
    /\ subs' = s.calls
    /\ statCalls' = statCalls + NumStat(s.calls)
    /\ raced' = (raced \/ AnyStatFailed(s.calls))
    /\ IF s.err # ""
       THEN /\ Crash(s.err)
            /\ UNCHANGED <<html, out, writes, idx>>
       ELSE /\ html' = [html EXCEPT ![f] = s.new_text]
            /\ writes' = Append(writes, f)
            /\ out' = Append(out, Updated(f))
            /\ idx' = idx + 1
            /\ UNCHANGED <<pc, err, exitCode>>

\* Lines 57-65 once the text is read and s is what line 62 did with it.
Processed(f, text, s) ==
    /\ reads' = Append(reads, f)
    /\ lastText' = text
    /\ lastNew' = s.new_text
    /\ subs' = s.calls
    /\ statCalls' = statCalls + NumStat(s.calls)
    /\ raced' = (raced \/ AnyStatFailed(s.calls))
    /\ IF s.err # ""
       THEN /\ Crash(s.err)
            /\ UNCHANGED <<html, out, writes, idx>>
       ELSE IF s.new_text = text
       THEN /\ idx' = idx + 1
            /\ UNCHANGED <<html, out, writes, pc, err, exitCode>>
       ELSE \E writeOk \in BOOLEAN :
            IF ~writeOk
            THEN /\ Crash("write")
                 /\ writes' = Append(writes, f)
                 /\ UNCHANGED <<html, out, idx>>
            ELSE /\ html' = [html EXCEPT ![f] = s.new_text]
                 /\ writes' = Append(writes, f)
                 /\ out' = Append(out, Updated(f))
                 /\ idx' = idx + 1
                 /\ UNCHANGED <<pc, err, exitCode>>

\* process_file(f) for the next file of the loop (lines 86-87), when the
\* file is read.  The environment decides which stat() calls fail (bad), how
\* exists() treats an over-long name (strict) and whether the write succeeds.
ProcessFile ==
    /\ pc = "loop"
    /\ idx <= Len(html_files)
    /\ \E strict \in BOOLEAN :
       \E bad \in SUBSET Statted(html[html_files[idx]], HtmlDir(html_files[idx]),
                                 version_arg, strict) :
          Processed(html_files[idx], html[html_files[idx]],
                    sub(html[html_files[idx]], HtmlDir(html_files[idx]),
                        version_arg, bad, strict))
    /\ UNCHANGED <<publicExists, version_arg, fs, now, html_files, run>>

----------------------------------------------------------------------------
(* __main__ (lines 68-89) *)

\* Lines 69-71: public/ is missing.
PublicMissing ==
    /\ pc = "start"
    /\ ~publicExists
    /\ out' = Append(out, [msg |-> "public/ not found", file |-> ""])
    /\ pc' = "exit"
    /\ exitCode' = 1
    /\ UNCHANGED <<publicExists, version_arg, html, fs, now, err, html_files,
                   idx, reads, writes, statCalls, raced, run, lastText,
                   lastNew, subs>>

Perms(S) ==
    {p \in [1..Cardinality(S) -> S] : \A i, j \in 1..Cardinality(S) :
                                         i # j => p[i] # p[j]}

\* The listing without the test of line 69.
Discover_unchecked ==
    /\ pc = "start"
    /\ \E order \in Perms(DOMAIN html) : html_files' = order
    /\ idx' = 1
    /\ pc' = "loop"
    /\ UNCHANGED <<publicExists, version_arg, html, fs, now, err, exitCode,
                   out, reads, writes, statCalls, raced, run, lastText,
                   lastNew, subs>>

\* Lines 72-85: public/ exists; the arguments are parsed and the HTML files
\* are listed, in whatever order rglob yields them.
Discover ==
    /\ pc = "start"
    /\ publicExists
    /\ \E order \in Perms(DOMAIN html) : html_files' = order
    /\ idx' = 1
    /\ pc' = "loop"
    /\ UNCHANGED <<publicExists, version_arg, html, fs, now, err, exitCode,
                   out, reads, writes, statCalls, raced, run, lastText,
                   lastNew, subs>>

\* Line 89, after the loop has run off the end of html_files.
PrintDone ==
    /\ pc = "loop"
    /\ idx > Len(html_files)
    /\ out' = Append(out, [msg |-> "Done.", file |-> ""])
    /\ pc' = "done"
    /\ exitCode' = 0
    /\ UNCHANGED <<publicExists, version_arg, html, fs, now, err, html_files,
                   idx, reads, writes, statCalls, raced, run, lastText,
                   lastNew, subs>>

\* The tool is run again, later, with the same command line, on the tree the
\* completed run left.
Rerun ==
    /\ pc = "done"
    /\ run < MaxRuns
    /\ run' = run + 1
    /\ now' = now + 1
    /\ pc' = "start"
    /\ err' = ""
    /\ exitCode' = -1
    /\ html_files' = <<>>
    /\ idx' = 0
    /\ out' = <<>>
    /\ reads' = <<>>
    /\ writes' = <<>>
    /\ statCalls' = 0
    /\ lastText' = <<>>
    /\ lastNew' = <<>>
    /\ subs' = <<>>
    /\ UNCHANGED <<publicExists, version_arg, html, fs, raced>>

Next == PublicMissing \/ Discover \/ ReadFails \/ ProcessFile \/ PrintDone \/ Rerun

----------------------------------------------------------------------------
(* Initial states: the command line and the tree the tool is run on *)

RECURSIVE SeqsUpTo(_, _)
SeqsUpTo(S, n) ==
    IF n = 0 THEN {<<>>}
    ELSE LET shorter == SeqsUpTo(S, n - 1)
         IN  shorter \cup {Append(s, x) : s \in {t \in shorter : Len(t) = n - 1}, x \in S}

\* --version: absent, or given as "", "a" or a single quote character.
Versions ==
    {[given |-> FALSE, val |-> <<>>]}
    \cup {[given |-> TRUE, val |-> v] : v \in {<<>>, <<"a">>, <<"SQ">>}}

\* Asset files that may exist: a.css at the filesystem root, in public/ and
\* in public/sub/, and a file in public/sub/ whose name holds a "?".
AssetCandidates ==
    {<< <<"a", ".css">> >>,
     PUBLIC \o << <<"a", ".css">> >>,
     SUB \o << <<"a", ".css">> >>,
     SUB \o << <<"?", ".css">> >>}

\* The asset files a page of Pages can name: a.css in public/ and public/sub/.
PageAssets == {PUBLIC \o << <<"a", ".css">> >>, SUB \o << <<"a", ".css">> >>}

Trees(C) == {S \in SUBSET C : Cardinality(S) <= MaxAssets}

\* A link: attribute, opening quote, body, closing quote.
Link(q, body) == <<"href=", q[1]>> \o body \o <<q[2]>>

QuotePairs == {<<"DQ", "DQ">>, <<"SQ", "SQ">>, <<"DQ", "SQ">>}

\* Every attribute value of 1..MaxBody tokens.
LinkBodies ==
    SeqsUpTo({"a", ".css", "?", "/", "http://", "x256"}, MaxBody) \ {<<>>}

LinkTexts == {Link(q, b) : q \in QuotePairs, b \in LinkBodies}

\* Pages of up to MaxLinks links, each a local or a remote stylesheet.
RECURSIVE Pages(_)
Pages(n) ==
    IF n = 0 THEN {<<>>}
    ELSE LET shorter == Pages(n - 1)
         IN  shorter \cup
             {p \o Link(<<"DQ", "DQ">>, b) :
                p \in shorter,
                b \in {<<"a", ".css">>, <<"http://", "a", ".css">>}}

InitCommon ==
    /\ version_arg \in Versions
    /\ now = 3 * TicksPerSec + 1
    /\ pc = "start"
    /\ err = ""
    /\ exitCode = -1
    /\ html_files = <<>>
    /\ idx = 0
    /\ out = <<>>
    /\ reads = <<>>
    /\ writes = <<>>
    /\ statCalls = 0
    /\ raced = FALSE
    /\ run = 1
    /\ lastText = <<>>
    /\ lastNew = <<>>
    /\ subs = <<>>

\* There is no public/ directory, so nothing in it; a.css may still exist at
\* the filesystem root.
NoPublic ==
    /\ publicExists = FALSE
    /\ fs \in SUBSET {<< <<"a", ".css">> >>}
    /\ html = [f \in {} |-> <<>>]

\* public/index.html and public/sub/page.html, each a page of links.
Init ==
    /\ InitCommon
    /\ \/ /\ publicExists = TRUE
          /\ fs \in Trees(PageAssets)
          /\ html \in [{"index", "page"} -> Pages(MaxLinks)]
       \/ NoPublic

Spec == Init /\ [][Next]_vars

\* public/sub/page.html alone, holding one link of any shape.
InitLink ==
    /\ InitCommon
    /\ \/ /\ publicExists = TRUE
          /\ fs \in Trees(AssetCandidates)
          /\ html \in [{"page"} -> LinkTexts]
       \/ NoPublic

SpecLink == InitLink /\ [][Next]_vars

----------------------------------------------------------------------------
(* Vocabulary of the properties *)

\* The part of a captured path before its first "?".
FirstQuery(rel) ==
    IF \E i \in 1..Len(rel) : rel[i] = "?"
    THEN CHOOSE i \in 1..Len(rel) :
           rel[i] = "?" /\ \A j \in 1..(i - 1) : rel[j] # "?"
    ELSE Len(rel) + 1

BeforeQuery(rel) == SubSeq(rel, 1, FirstQuery(rel) - 1)

\* The attribute a rewritten link must be: prefix, path without query,
\* one ?v=<v>, closing quote.
Versioned(c, v) == c.prefix \o BeforeQuery(c.rel) \o <<"?", "v=">> \o v \o c.suffix

StartsRemote(rel) ==
    \/ SubSeq(rel, 1, 1) \in {<<"http://">>, <<"https://">>}
    \/ (Len(rel) >= 2 /\ SubSeq(rel, 1, 2) = <<"/", "/">>)

Returned(c) == c.outcome \in {"remote", "missing", "rewritten"}

Count(line, lines) == Cardinality({i \in 1..Len(lines) : lines[i] = line})

Done == [msg |-> "Done.", file |-> ""]

NotFound == [msg |-> "public/ not found", file |-> ""]

IsPrefix(s, t) == Len(s) <= Len(t) /\ s = SubSeq(t, 1, Len(s))

----------------------------------------------------------------------------
(* C1 *)

\* C1: a second run with the same explicit --version on an unchanged tree
\* (no asset vanished under the tool) writes no file, prints no "Updated:"
\* notice and leaves every file it has processed as it read it.
C1_SecondRunNoOp ==
    (run >= 2 /\ version_arg.given /\ ~raced) =>
        /\ writes = <<>>
        /\ \A i \in 1..Len(out) : out[i].msg # "Updated:"
        /\ lastNew = lastText

----------------------------------------------------------------------------
(* C2 *)

\* C2: whenever replace_match returns something other than the match, what
\* it returns is the prefix, the captured path cut at its first "?", exactly
\* one ?v=<version> and the closing quote; nothing of an old query survives.
C2_QueryReplaced ==
    \A k \in 1..Len(subs) :
        (Returned(subs[k]) /\ subs[k].out # subs[k].g0) =>
            /\ subs[k].out = Versioned(subs[k], subs[k].v)
            /\ \A i \in 1..Len(BeforeQuery(subs[k].rel)) : subs[k].rel[i] # "?"
            /\ Count("?", subs[k].out) = 1 + Count("?", subs[k].v)
            /\ IsPrefix(subs[k].prefix \o subs[k].rel, subs[k].g0)
            /\ subs[k].v = IF version_arg.given /\ version_arg.val # <<>>
                           THEN version_arg.val
                           ELSE IF subs[k].statFailed THEN str(int(now))
                           ELSE str(int(st_mtime(subs[k].target)))

\* A link whose captured path itself holds a "?" has been rewritten.
C2_Witness ==
    \E k \in 1..Len(subs) :
        /\ subs[k].outcome = "rewritten"
        /\ subs[k].out # subs[k].g0
        /\ \E i \in 1..Len(subs[k].rel) : subs[k].rel[i] = "?"

\* A link whose query the optional group consumed has been rewritten.
C2_WitnessConsumed ==
    \E k \in 1..Len(subs) :
        /\ subs[k].outcome = "rewritten"
        /\ subs[k].out # subs[k].g0
        /\ Len(subs[k].g0) > Len(subs[k].prefix) + Len(subs[k].rel) + 1

----------------------------------------------------------------------------
(* C3 *)

\* C3: with --version given, whatever its value, every rewritten link
\* carries ?v=<that value> and mtime_version is never called.
C3_ExplicitVerbatim ==
    version_arg.given =>
        /\ statCalls = 0
        /\ \A k \in 1..Len(subs) :
              (Returned(subs[k]) /\ subs[k].out # subs[k].g0) =>
                  subs[k].out = Versioned(subs[k], version_arg.val)

----------------------------------------------------------------------------
(* C4 *)

\* C4: a matched link whose path starts with http://, https:// or // is
\* returned as matched, without the filesystem being consulted: no exists()
\* raises for it and no stat() is made, and a page holding only such links
\* is left as it was read.
C4_RemoteUntouched ==
    /\ \A k \in 1..Len(subs) :
          StartsRemote(subs[k].rel) =>
              /\ Returned(subs[k])
              /\ subs[k].out = subs[k].g0
              /\ ~subs[k].stat
    /\ (subs # <<>> /\ \A k \in 1..Len(subs) : StartsRemote(subs[k].rel)) =>
          /\ lastNew = lastText
          /\ err = ""
          /\ \A i \in 1..Len(writes) : writes[i] # reads[Len(reads)]

\* A remote link has been through replace_match.
C4_Witness ==
    /\ pc = "done"
    /\ \E k \in 1..Len(subs) : StartsRemote(subs[k].rel)

----------------------------------------------------------------------------
(* C5 *)

\* C5: a matched non-remote link whose path exists neither under the HTML
\* file's directory nor under public/ is returned as matched, and no error
\* is raised.
C5_UnresolvableUntouched ==
    \A k \in 1..Len(subs) :
        (/\ ~StartsRemote(subs[k].rel)
         /\ Join(subs[k].dir, subs[k].rel) \notin fs
         /\ Join(PUBLIC, subs[k].rel) \notin fs) =>
            /\ Returned(subs[k])
            /\ subs[k].out = subs[k].g0
            /\ err # "exists"

----------------------------------------------------------------------------
(* C6 *)

\* C6: process_file writes the file and prints one "Updated:" notice for it
\* exactly when the substituted text differs from the text read; when they
\* are equal the file is not written and nothing is printed for it.  (A
\* write that fails was attempted because the texts differ.)
C6_WriteOnlyOnChange ==
    (reads # <<>> /\ err \in {"", "write"}) =>
        /\ (lastNew # lastText) <=> (Count(reads[Len(reads)], writes) = 1)
        /\ (lastNew = lastText) => Count(reads[Len(reads)], writes) = 0
        /\ err = "" =>
              /\ Count(Updated(reads[Len(reads)]), out)
                    = (IF lastNew # lastText THEN 1 ELSE 0)
              /\ html[reads[Len(reads)]] = lastNew
        /\ err = "write" =>
              /\ lastNew # lastText
              /\ Count(Updated(reads[Len(reads)]), out) = 0

\* Both files have been processed: one was rewritten and reported, the other
\* was found unchanged and left alone.
C6_Witness ==
    /\ pc = "loop"
    /\ Len(reads) = 2
    /\ Len(writes) = 1
    /\ Len(out) = 1
    /\ lastNew = lastText
    /\ subs # <<>>

----------------------------------------------------------------------------
(* C7 *)

\* C7: without public/ the run prints "public/ not found", exits with a
\* non-zero status, and never discovers, reads or writes a file nor prints
\* "Done.".
C7_MissingPublicFatal ==
    ~publicExists =>
        /\ pc \in {"start", "exit"}
        /\ html_files = <<>>
        /\ reads = <<>>
        /\ writes = <<>>
        /\ Count(Done, out) = 0
        /\ pc = "start" => (out = <<>> /\ exitCode = -1)
        /\ pc = "exit" => (out = <<NotFound>> /\ exitCode = 1)

\* The run without public/ has ended.
C7_Witness == ~publicExists /\ pc = "exit"

----------------------------------------------------------------------------
(* C8 *)

\* C8: with no --version, a stat() that fails on a resolved asset does not
\* end the run: the link is rewritten with the current time truncated to
\* whole seconds, no exception leaves mtime_version, and every link of the
\* file is still handled.
C8_StatFailureContained ==
    /\ err # "stat"
    /\ ~version_arg.given =>
          \A k \in 1..Len(subs) :
              subs[k].statFailed =>
                  /\ subs[k].outcome = "rewritten"
                  /\ subs[k].v = str(now \div TicksPerSec)
                  /\ subs[k].out = Versioned(subs[k], str(now \div TicksPerSec))
    /\ (~version_arg.given /\ AnyStatFailed(subs) /\ err \notin {"exists", "write"}) =>
          /\ pc \in {"loop", "done"}
          /\ Len(subs) = Len(finditer(lastText, 1))

\* The stat() of a page's first link failed, its second link was rewritten
\* from the asset's mtime, and the loop went on.
C8_Witness ==
    /\ ~version_arg.given
    /\ pc = "loop"
    /\ Len(subs) = 2
    /\ subs[1].statFailed
    /\ subs[2].outcome = "rewritten"
    /\ ~subs[2].statFailed

----------------------------------------------------------------------------
(* C9 *)

----------------------------------------------------------------------------
(* C10 *)

C10_State ==
    \* discovered once, processed once each, in discovery order
    /\ IsPrefix(reads, html_files)
    /\ \A i, j \in 1..Len(html_files) : i # j => html_files[i] # html_files[j]
    /\ pc \in {"loop", "done", "crashed"} =>
          {html_files[i] : i \in 1..Len(html_files)} = DOMAIN html
    /\ (pc = "loop" => Len(reads) = idx - 1)
    /\ \A i \in 1..Len(writes) : \E j \in 1..Len(reads) : writes[i] = reads[j]
    \* "Done." once, last, and only after a run without failure
    /\ Count(Done, out) = (IF pc = "done" THEN 1 ELSE 0)
    /\ pc = "done" =>
          /\ out[Len(out)] = Done
          /\ reads = html_files
          /\ err = ""
          /\ exitCode = 0
    \* a failure ends the run at the file that failed
    /\ err # "" <=> pc = "crashed"
    /\ pc = "crashed" =>
          /\ exitCode = 1
          /\ Len(reads) = idx
    \* every notice is for a file that was written, once
    /\ \A i \in 1..Len(out) :
          out[i].msg = "Updated:" => Count(out[i].file, writes) = 1

C10_Step ==
    \* nothing happens after the failure
    /\ pc = "crashed" => UNCHANGED vars
    \* the failing step writes nothing, prints nothing, undoes nothing
    /\ pc' = "crashed" => (html' = html /\ out' = out)
    \* notices are only ever added while the run lasts
    /\ run' = run => IsPrefix(out, out')

\* C10: the HTML files are listed once and processed once each, in order;
\* "Done." is printed once, last, and only when no file failed; a failing
\* read or write is not caught: the run ends there, prints no "Done.",
\* touches no later file and leaves the files it has rewritten rewritten.
C10_RunOrder == []C10_State /\ [][C10_Step]_vars

\* The first file was rewritten and reported, then the write of the second
\* failed.
C10_Witness ==
    /\ pc = "crashed"
    /\ err = "write"
    /\ Len(reads) = 2
    /\ Len(writes) = 2
    /\ out = <<Updated(reads[1])>>
    /\ html[reads[1]] # html[reads[2]]

====
